---- MODULE Spec2Model ----
(***************************************************************************)
(* Block production and commit core of exonum/src/blockchain/mod.rs:       *)
(* Blockchain::new, initialize, create_patch, execute_transaction, commit,  *)
(* save_messages, and the fork / patch / merge discipline of the store     *)
(* they run against.                                                       *)
(***************************************************************************)
EXTENDS Integers, Sequences, FiniteSets, TLC

VARIABLES
    supplied_services, \* the `services` handed to Blockchain::new (their ids)
    service_map,   \* Blockchain.service_map: the registered service ids
    iter_order,    \* the order in which this instance's HashMap enumerates them
    db,            \* Blockchain.db: the committed store
    tx_cache,      \* the caller's BTreeMap<Hash, Signed<RawTransaction>> (its keys)
    pending,       \* the (block_hash, patch) a create_patch returned, not yet committed
    node,          \* "running", or "halted" after a panic or a failed merge
    last,          \* record of the last call made on the Blockchain
    seen,          \* hashes that were in tx_cache since the last commit
    saved_messages, \* the messages handed to save_message(s) since the last commit
    fork_taken     \* a create_patch of another clone that holds its fork (mod.rs:299)
                   \* and has not read last_hash() yet (mod.rs:303), or None

vars == <<supplied_services, service_map, iter_order, db, tx_cache, pending, node, last, seen,
          saved_messages, fork_taken>>

(***************************************************************************)
(* Bounds of the model.                                                    *)
(***************************************************************************)
\* highest block height built
MaxHeight == 2
\* cap on the persistent transaction_count counter (u64 in the code)
MaxTxCount == 3
\* most consensus messages saved during one height
MaxMessages == 2

CORE_SERVICE == 0

ServiceIds == {1, 2}
\* A service with an id of its own that carries the name of service 2.
TwinService == 3
\* A service whose before_commit panics after it has written.
FaultyService == 4
AllServiceIds == ServiceIds \cup {TwinService, FaultyService}
Heights == 0 .. MaxHeight
ValidatorIds == {0}

\* Transaction hashes; the hash identifies the signed envelope.
Txs == {"ta", "tb", "tc"}

\* The consensus messages of a height, named by their order of arrival.
Messages == [i \in 1 .. MaxMessages |-> [message |-> i]]

Rounds == {1, 2}

\* The service a transaction's envelope names (RawTransaction::service_id).
TxService(t) == 1

\* What Transaction::execute of the parsed transaction does: it returns Ok,
\* returns a structured error, or panics with a cause that is no StorageError.
TxKind(t) ==
    CASE t = "ta" -> "ok"
      [] t = "tb" -> "err"
      [] t = "tc" -> "panic"

\* An envelope of service 1 whose payload the service cannot parse.
UnparseableTx == "tu"

\* Service::tx_from_raw: whether the service parses the payload.
service_tx_from_raw(t) == t # UnparseableTx

ServiceName(sid) ==
    IF sid = 1 THEN "counter" ELSE IF sid = FaultyService THEN "faulty" ELSE "mirror"

EmptyFn == [x \in {} |-> 0]

None == [none |-> TRUE]

\* crypto::hash / ObjectHash: an injective digest of the content.
Hash(x) == [digest |-> x]

\* Hash::zero(): the digest of nothing, distinct from every digest of a content.
ZeroHash == [digest |-> [zero |-> TRUE]]

\* The elements of a sequence.
Range(q) == {q[i] : i \in 1 .. Len(q)}

\* All sequences over S of length at most n.
SeqsUpTo(S, n) == UNION {[1 .. k -> S] : k \in 0 .. n}

\* All enumerations (permutations) of the finite set S.
Enumerations(S) ==
    {f \in [1 .. Cardinality(S) -> S] : \A i, j \in 1 .. Cardinality(S) : i # j => f[i] # f[j]}

IsAscending(s) == \A i, j \in 1 .. Len(s) : i < j => s[i] < s[j]

(***************************************************************************)
(* The store.  A database state is a record of the schema's tables and the *)
(* services' tables.                                                       *)
(***************************************************************************)
EmptyDb ==
    [configs |-> <<>>,
     blocks |-> EmptyFn,
     block_hashes_by_height |-> <<>>,
     block_transactions |-> [h \in Heights |-> <<>>],
     transactions |-> {},
     transactions_pool |-> {},
     transactions_pool_len |-> 0,
     transaction_results |-> EmptyFn,
     transactions_locations |-> EmptyFn,
     precommits |-> EmptyFn,
     consensus_messages_cache |-> <<>>,
     consensus_round |-> 0,
     transaction_count |-> 0,
     state_hash_aggregator |-> EmptyFn,
     counter |-> [s \in AllServiceIds |-> 0],
     hook_table |-> [s \in AllServiceIds |-> 0]]

\* Database::fork: an overlay on the committed state, with a savepoint; cleared
\* names the tables the fork has cleared.
Fork(d) == [base |-> d, flushed |-> d, working |-> d, cleared |-> {}]

\* Fork::flush: the working changes become the savepoint.
Flush(f) == [f EXCEPT !.flushed = f.working]

\* Fork::rollback: back to the last savepoint.
Rollback(f) == [f EXCEPT !.working = f.flushed]

\* Fork::into_patch: flushes and seals the changes made since the fork.
IntoPatch(f) == [base |-> f.base, st |-> f.working, cleared |-> f.cleared]

\* Patch -> Fork (commit's `patch.into()`).
PatchIntoFork(p) ==
    [base |-> p.base, flushed |-> p.st, working |-> p.st, cleared |-> p.cleared]

\* Database::merge: applies the tables the patch changed or cleared to the store.
merge(d, p) ==
    [k \in DOMAIN d |-> IF k \in p.cleared \/ p.st[k] # p.base[k] THEN p.st[k] ELSE d[k]]

\* Writes table k of the fork's working state.
Put(f, k, v) == [f EXCEPT !.working[k] = v]

\* Index::clear on list k of the fork: the patch will carry the clear.
Clear(f, k) == [f EXCEPT !.working[k] = <<>>, !.cleared = @ \cup {k}]

(***************************************************************************)
(* Schema helpers.                                                         *)
(***************************************************************************)
\* Schema::commit_transaction: the envelope becomes persistent and leaves the pool.
commit_transaction(st, h) ==
    [st EXCEPT
        !.transactions = @ \cup {h},
        !.transactions_pool = @ \ {h},
        !.transactions_pool_len = IF h \in st.transactions_pool THEN @ - 1 ELSE @]

\* Schema::add_transaction_into_pool.
add_transaction_into_pool(st, h) ==
    [st EXCEPT
        !.transactions_pool = @ \cup {h},
        !.transactions_pool_len = @ + 1]

\* Schema::core_state_hash: roots of the core tables that enter the state hash.
core_state_hash(st) == <<Hash(st.configs), Hash(st.transaction_results)>>

\* Schema::last_block.
schema_last_block(st) ==
    st.blocks[st.block_hashes_by_height[Len(st.block_hashes_by_height)]]

\* Blockchain::last_hash.
last_hash(d) ==
    IF d.block_hashes_by_height = <<>>
    THEN ZeroHash
    ELSE d.block_hashes_by_height[Len(d.block_hashes_by_height)]

\* Blockchain::last_block.
last_block(d) == schema_last_block(d)

\* Blockchain::pool_size.
pool_size(d) == d.transactions_pool_len

\* Blockchain::service_table_unique_key: hash of LE16(service_id) || LE16(table_idx).
service_table_unique_key(service_id, table_idx) ==
    Hash(<<service_id % 65536, table_idx % 65536>>)

\* Blockchain::tx_from_raw: the service is looked up by the envelope's
\* service_id and parses the payload.
tx_from_raw(services, t) ==
    IF TxService(t) \notin services THEN "service_not_found"
    ELSE IF service_tx_from_raw(t) THEN "ok"
    ELSE "parse_error"

\* A lookup that asks the tx-cache first.
get_tx_cache_first(h, txs, cache) ==
    IF h \in cache THEN [found |-> TRUE, from |-> "tx_cache"]
    ELSE IF h \in txs THEN [found |-> TRUE, from |-> "transactions"]
    ELSE [found |-> FALSE, from |-> "nowhere"]

\* get_tx: the persistent envelope first, the tx-cache second.
get_tx(h, txs, cache) ==
    IF h \in txs THEN [found |-> TRUE, from |-> "transactions"]
    ELSE IF h \in cache THEN [found |-> TRUE, from |-> "tx_cache"]
    ELSE [found |-> FALSE, from |-> "nowhere"]

(***************************************************************************)
(* Services.  A service owns a table written by its transactions (counter) *)
(* and a table written by its before_commit hook (hook_table); every hook  *)
(* and every transaction is handed the whole fork.                         *)
(***************************************************************************)
\* Transaction::execute: writes the service's counter, then returns or faults.
\* storage_fault: the store fails under the write (a StorageError panic).
tx_execute(f, t, storage_fault) ==
    [fork |-> Put(f, "counter", [f.working.counter EXCEPT ![TxService(t)] = @ + 1]),
     outcome |-> IF storage_fault THEN "storage_error" ELSE TxKind(t)]

\* Service::before_commit, the writes: service 1 counts the blocks it has seen,
\* the faulty service counts in its own table and resets service 1's, every
\* other service copies service 1's table into its own.
service_before_commit(sid, f) ==
    IF sid = 1
    THEN Put(f, "hook_table", [f.working.hook_table EXCEPT ![1] = @ + 1])
    ELSE IF sid = FaultyService
    THEN Put(f, "hook_table", [f.working.hook_table EXCEPT ![FaultyService] = @ + 1, ![1] = 0])
    ELSE Put(f, "hook_table", [f.working.hook_table EXCEPT ![sid] = f.working.hook_table[1]])

\* Service::before_commit, how it ends: the store fails under it (a StorageError
\* panic), the faulty service panics with another cause, any other returns.
hook_outcome(sid, storage_fault) ==
    IF storage_fault THEN "storage_error"
    ELSE IF sid = FaultyService THEN "panic"
    ELSE "ok"

\* Service::state_hash: the root of the counter table, followed by the root of the
\* hook table while the hook table is in an odd generation (the service lists
\* that table every other block), so the vector's length varies with the height.
service_state_hash(sid, st) ==
    IF st.hook_table[sid] % 2 = 1
    THEN <<Hash(st.counter[sid]), Hash(st.hook_table[sid])>>
    ELSE <<Hash(st.counter[sid])>>

\* A barrier that takes no panic for a StorageError.
is_storage_error_never(outcome) == FALSE

\* err.is::<StorageError>() of the caught panic.
is_storage_error(outcome) == outcome = "storage_error"

\* An executor that keeps the writes of a failed transaction.
classify_fork_no_rollback(run) == run.fork

\* The fork after the executor classified the outcome: kept on success,
\* rolled back to the savepoint on an error or a panic.
classify_fork(run) ==
    IF run.outcome = "ok" THEN run.fork ELSE Rollback(run.fork)

\* A tail that records the location one past the index.
record_transaction_location_off(f, tx_hash, height, index, tx_result) ==
    LET st0 == f.working
        st1 == [st0 EXCEPT !.transaction_results = (tx_hash :> tx_result) @@ @]
        st2 == commit_transaction(st1, tx_hash)
        st3 == [st2 EXCEPT !.block_transactions[height] = Append(@, tx_hash)]
        st4 == [st3 EXCEPT !.transactions_locations =
                               (tx_hash :> [height |-> height, index |-> index + 1]) @@ @]
    IN  Flush([f EXCEPT !.working = st4])

\* A tail that writes no location.
record_transaction_no_location(f, tx_hash, height, index, tx_result) ==
    LET st0 == f.working
        st1 == [st0 EXCEPT !.transaction_results = (tx_hash :> tx_result) @@ @]
        st2 == commit_transaction(st1, tx_hash)
        st3 == [st2 EXCEPT !.block_transactions[height] = Append(@, tx_hash)]
    IN  Flush([f EXCEPT !.working = st3])

\* A tail that leaves the envelope where it was (no commit_transaction).
record_transaction_no_commit(f, tx_hash, height, index, tx_result) ==
    LET st0 == f.working
        st1 == [st0 EXCEPT !.transaction_results = (tx_hash :> tx_result) @@ @]
        st3 == [st1 EXCEPT !.block_transactions[height] = Append(@, tx_hash)]
        st4 == [st3 EXCEPT !.transactions_locations =
                               (tx_hash :> [height |-> height, index |-> index]) @@ @]
    IN  Flush([f EXCEPT !.working = st4])

\* The tail of execute_transaction: result, envelope, block list, location, flush.
record_transaction(f, tx_hash, height, index, tx_result) ==
    LET st0 == f.working
        st1 == [st0 EXCEPT !.transaction_results = (tx_hash :> tx_result) @@ @]
        st2 == commit_transaction(st1, tx_hash)
        st3 == [st2 EXCEPT !.block_transactions[height] = Append(@, tx_hash)]
        st4 == [st3 EXCEPT !.transactions_locations =
                               (tx_hash :> [height |-> height, index |-> index]) @@ @]
    IN  Flush([f EXCEPT !.working = st4])

\* The TransactionResult the executor records for an outcome it did not resume.
tx_result(outcome) == IF outcome = "storage_error" THEN "panic" ELSE outcome

\* execute_transaction from the caught result on: a StorageError panic is resumed,
\* anything else is classified and recorded, and the hash leaves the tx-cache.
finish_execution(run, tx_hash, height, index, cache) ==
    IF is_storage_error(run.outcome)
    THEN [status |-> "storage_unwind", fork |-> run.fork, cache |-> cache]
    ELSE [status |-> "ok",
          fork |-> record_transaction(classify_fork(run), tx_hash, height, index,
                                      tx_result(run.outcome)),
          cache |-> cache \ {tx_hash}]

\* Blockchain::execute_transaction.  status "ok" is Ok(()); "missing_transaction",
\* "service_not_found" and "parse_error" are the Err returns; "storage_unwind" is
\* the resumed panic.
execute_transaction(services, tx_hash, height, index, f, cache, storage_fault) ==
    IF ~get_tx(tx_hash, f.working.transactions, cache).found
    THEN [status |-> "missing_transaction", fork |-> f, cache |-> cache]
    ELSE IF TxService(tx_hash) \notin services
    THEN [status |-> "service_not_found", fork |-> f, cache |-> cache]
    ELSE IF tx_from_raw(services, tx_hash) # "ok"
    THEN [status |-> "parse_error", fork |-> f, cache |-> cache]
    ELSE finish_execution(tx_execute(f, tx_hash, storage_fault), tx_hash, height, index, cache)

\* The loop of create_patch over tx_hashes (i is the 1-based position, the
\* code's index is i - 1); it stops at the first execution that does not return
\* Ok.  execute_next continues it from the result r of position i.
RECURSIVE execute_all(_, _, _, _, _, _, _)
RECURSIVE execute_next(_, _, _, _, _, _)
execute_next(r, services, tx_hashes, height, i, fault_at) ==
    IF r.status # "ok"
    THEN [status |-> r.status, fork |-> r.fork, cache |-> r.cache, at |-> i]
    ELSE execute_all(services, tx_hashes, height, i + 1, r.fork, r.cache, fault_at)

execute_all(services, tx_hashes, height, i, f, cache, fault_at) ==
    IF i > Len(tx_hashes)
    THEN [status |-> "ok", fork |-> f, cache |-> cache, at |-> 0]
    ELSE execute_next(execute_transaction(services, tx_hashes[i], height, i - 1, f, cache,
                                          fault_at = i),
                      services, tx_hashes, height, i, fault_at)

\* A barrier that keeps the writes of a hook that panicked.
before_commit_no_rollback(sid, f, storage_fault) ==
    IF is_storage_error(hook_outcome(sid, storage_fault))
    THEN [status |-> "storage_unwind", fork |-> service_before_commit(sid, f)]
    ELSE [status |-> "ok", fork |-> Flush(service_before_commit(sid, f))]

\* before_commit (the free function): the hook under catch_unwind; flush when it
\* returned, the panic resumed when its cause is a StorageError, rollback (and
\* an error log) otherwise.
before_commit(sid, f, storage_fault) ==
    IF hook_outcome(sid, storage_fault) = "ok"
    THEN [status |-> "ok", fork |-> Flush(service_before_commit(sid, f))]
    ELSE IF is_storage_error(hook_outcome(sid, storage_fault))
    THEN [status |-> "storage_unwind", fork |-> service_before_commit(sid, f)]
    ELSE [status |-> "ok", fork |-> Rollback(service_before_commit(sid, f))]

\* The loop of create_patch over service_map.values(), in the map's order; the
\* store fails under the hook at position hook_fault (0: under none).
\* next_before_commit continues it from the result r of position i.
RECURSIVE run_before_commit(_, _, _, _, _)
RECURSIVE next_before_commit(_, _, _, _, _)
next_before_commit(r, order, i, height, hook_fault) ==
    IF r.status # "ok"
    THEN [status |-> r.status, fork |-> r.fork, at |-> i]
    ELSE run_before_commit(order, i + 1, height, r.fork, hook_fault)

run_before_commit(order, i, height, f, hook_fault) ==
    IF i > Len(order) THEN [status |-> "ok", fork |-> f, at |-> 0]
    ELSE IF height > 0
    THEN next_before_commit(before_commit(order[i], f, hook_fault = i),
                            order, i, height, hook_fault)
    ELSE run_before_commit(order, i + 1, height, f, hook_fault)

\* The services whose before_commit create_patch invoked, in invocation order.
before_commit_calls(order, height) == IF height > 0 THEN order ELSE <<>>

\* The (key, hash) pairs of one state_hash vector.
table_entries(sid, hashes) ==
    [i \in 1 .. Len(hashes) |-> <<service_table_unique_key(sid, i - 1), hashes[i]>>]

\* state_hashes of create_patch: the core tables, then every service in map order.
RECURSIVE collect_state_hashes(_, _, _, _)
collect_state_hashes(order, i, st, acc) ==
    IF i > Len(order) THEN acc
    ELSE collect_state_hashes(order, i + 1, st,
                              acc \o table_entries(order[i], service_state_hash(order[i], st)))

\* sum_table.put for every collected pair, in order.
RECURSIVE put_all(_, _, _)
put_all(agg, pairs, i) ==
    IF i > Len(pairs) THEN agg
    ELSE put_all((pairs[i][1] :> pairs[i][2]) @@ agg, pairs, i + 1)

\* Block::new.  tx_count is tx_hashes.len() as u32; the lists here are far
\* shorter than 2^32, so the cast changes nothing.
Block(proposer_id, height, tx_count, prev_hash, tx_hash, state_hash) ==
    [proposer_id |-> proposer_id, height |-> height, tx_count |-> tx_count,
     prev_hash |-> prev_hash, tx_hash |-> tx_hash, state_hash |-> state_hash]

\* An end of create_patch that stores the block and pushes no hash.
save_block_no_push(f, block) ==
    Put(f, "blocks", (Hash(block) :> block) @@ f.working.blocks)

\* The end of create_patch: the hash is pushed to block_hashes_by_height and the
\* block is stored under it.
save_block(f, block) ==
    LET block_hash == Hash(block)
        f1 == Put(f, "block_hashes_by_height",
                  Append(f.working.block_hashes_by_height, block_hash))
    IN  Put(f1, "blocks", (block_hash :> block) @@ f1.working.blocks)

\* An aggregation that leaves the core tables out.
aggregate_state_hashes_services_only(order, f) ==
    Put(f, "state_hash_aggregator",
        put_all(f.working.state_hash_aggregator,
                collect_state_hashes(order, 1, f.working, <<>>),
                1))

\* The state-hash aggregation of create_patch on fork f.
aggregate_state_hashes(order, f) ==
    Put(f, "state_hash_aggregator",
        put_all(f.working.state_hash_aggregator,
                collect_state_hashes(order, 1, f.working,
                                     table_entries(CORE_SERVICE, core_state_hash(f.working))),
                1))

\* The header create_patch builds on fork f, whose aggregator is up to date.
new_block(f, proposer_id, height, tx_count, prev_hash) ==
    Block(proposer_id, height, tx_count, prev_hash,
          Hash(f.working.block_transactions[height]),
          Hash(f.working.state_hash_aggregator))

\* A create_patch that merges the patch it returns.
patch_result_merged(f, block_hash, cache, before_log) ==
    [status |-> "ok", at |-> 0, cache |-> cache, fork |-> f,
     block_hash |-> block_hash, patch |-> IntoPatch(f),
     before_log |-> before_log, db |-> merge(f.base, IntoPatch(f))]

\* What create_patch returns for the fork f that holds the saved block.  db is
\* the committed store when the call ends: every write went to the fork and
\* nothing was merged, so it is the state the fork was taken from.
patch_result(f, block_hash, cache, before_log) ==
    [status |-> "ok", at |-> 0, cache |-> cache, fork |-> f,
     block_hash |-> block_hash, patch |-> IntoPatch(f),
     before_log |-> before_log, db |-> f.base]

\* create_patch after the hooks: aggregation, header, block.
seal_block(f, cache, order, proposer_id, height, tx_count, prev_hash) ==
    patch_result(save_block(f, new_block(f, proposer_id, height, tx_count, prev_hash)),
                 Hash(new_block(f, proposer_id, height, tx_count, prev_hash)),
                 cache, before_commit_calls(order, height))

\* What is left of a create_patch that panicked at position at with fork f.
patch_panic(status, at, cache, f) ==
    [status |-> status, at |-> at, cache |-> cache, fork |-> f,
     block_hash |-> ZeroHash, patch |-> None, before_log |-> <<>>,
     db |-> f.base]

\* create_patch from the result hk of the loop over the services on.
finish_hooks(hk, cache, order, proposer_id, height, tx_count, prev_hash) ==
    IF hk.status # "ok"
    THEN patch_panic(hk.status, tx_count + hk.at, cache, hk.fork)
    ELSE seal_block(aggregate_state_hashes(order, hk.fork),
                    cache, order, proposer_id, height, tx_count, prev_hash)

\* create_patch from the result ex of the loop over tx_hashes on.  fault_at
\* counts the executions of the call: the transactions, then the hooks.
finish_patch(ex, order, proposer_id, height, tx_count, prev_hash, fault_at) ==
    IF ex.status # "ok"
    THEN patch_panic(ex.status, ex.at, ex.cache, ex.fork)
    ELSE finish_hooks(run_before_commit(order, 1, height, ex.fork,
                                        IF fault_at > tx_count THEN fault_at - tx_count ELSE 0),
                      ex.cache, order, proposer_id, height, tx_count, prev_hash)

\* Blockchain::create_patch.  status "ok": (block_hash, patch) is returned;
\* any other status: the call panics (expect / resume_unwind) and returns nothing.
create_patch(services, order, d, proposer_id, height, tx_hashes, cache, fault_at) ==
    finish_patch(execute_all(services, tx_hashes, height, 1, Fork(d), cache, fault_at),
                 order, proposer_id, height, Len(tx_hashes), last_hash(d), fault_at)

\* Blockchain::create_patch seen with its two reads of the store apart: f is the
\* fork self.fork() returned (mod.rs:299) and d the committed state that the
\* snapshot of self.last_hash() sees (mod.rs:303, 169-174).
create_patch_from(services, order, f, d, proposer_id, height, tx_hashes, cache, fault_at) ==
    finish_patch(execute_all(services, tx_hashes, height, 1, f, cache, fault_at),
                 order, proposer_id, height, Len(tx_hashes), last_hash(d), fault_at)

(***************************************************************************)
(* Construction, genesis and commit.                                       *)
(***************************************************************************)
\* A constructor that inserts every service, a later one replacing an earlier
\* one with the same id.
RECURSIVE new_overwriting(_, _, _)
new_overwriting(supplied, i, map) ==
    IF i > Len(supplied) THEN [status |-> "ok", service_map |-> map]
    ELSE new_overwriting(supplied, i + 1, map \cup {supplied[i]})

\* Blockchain::new: the loop that builds service_map from the services supplied
\* (i is the position in the list, map the ids inserted so far); it panics at
\* the first service whose id is already in the map.
RECURSIVE new(_, _, _)
new(supplied, i, map) ==
    IF i > Len(supplied) THEN [status |-> "ok", service_map |-> map]
    ELSE IF supplied[i] \in map THEN [status |-> "panic", service_map |-> map]
    ELSE new(supplied, i + 1, map \cup {supplied[i]})

\* The loop of create_genesis_block over the services, in the map's order: TRUE
\* when it meets a service whose name is already in config_propose.services.
RECURSIVE name_collision(_, _, _)
name_collision(order, i, names) ==
    IF i > Len(order) THEN FALSE
    ELSE IF ServiceName(order[i]) \in names THEN TRUE
    ELSE name_collision(order, i + 1, names \cup {ServiceName(order[i])})

GenesisConfigs == {[validator_keys |-> <<"K">>, consensus |-> "default"]}

PrecommitInputs == {<<"precommit_a", "precommit_b">>}

\* Service::initialize: the opaque configuration the service returns at genesis.
service_initialize(sid) == [service |-> sid]

\* Schema::commit_configuration: appends to the configuration history.
commit_configuration(st, config_propose) ==
    [st EXCEPT !.configs = Append(@, config_propose)]

\* The StoredConfiguration create_genesis_block builds from the registered services.
genesis_configuration(services, cfg) ==
    [previous_cfg_hash |-> ZeroHash,
     actual_from |-> 0,
     validator_keys |-> cfg.validator_keys,
     consensus |-> cfg.consensus,
     services |-> {<<ServiceName(s), service_initialize(s)>> : s \in services}]

\* The patch of create_genesis_block's first fork: the configuration.
configuration_patch(services, d, cfg) ==
    IntoPatch(Put(Fork(d), "configs",
                  commit_configuration(d, genesis_configuration(services, cfg)).configs))

\* create_genesis_block after the configuration was merged into d1: block 0 is
\* built by create_patch and merged.
genesis_block(services, order, d1, failing_merge) ==
    IF failing_merge = 2
    THEN [status |-> "storage_error", db |-> d1]
    ELSE [status |-> "ok",
          db |-> merge(d1, create_patch(services, order, d1, 0, 0, <<>>, {}, 0).patch)]

\* Blockchain::create_genesis_block.  failing_merge: 0 none, 1 the merge of the
\* configuration fails, 2 the merge of block 0 fails.
create_genesis_block(services, order, d, cfg, failing_merge) ==
    IF name_collision(order, 1, {})
    THEN [status |-> "panic", db |-> d]
    ELSE IF Fork(d).working.block_hashes_by_height # <<>>
    THEN [status |-> "ok", db |-> d]
    ELSE IF failing_merge = 1
    THEN [status |-> "storage_error", db |-> d]
    ELSE genesis_block(services, order, merge(d, configuration_patch(services, d, cfg)),
                       failing_merge)

\* An initialize that builds a genesis block whether or not block 0 exists.
initialize_unguarded(services, order, d, cfg, failing_merge) ==
    IF failing_merge = 1
    THEN [status |-> "storage_error", db |-> d]
    ELSE genesis_block(services, order, merge(d, configuration_patch(services, d, cfg)),
                       failing_merge)

\* Blockchain::initialize.
initialize(services, order, d, cfg, failing_merge) ==
    IF d.block_hashes_by_height # <<>>
    THEN [status |-> "ok", db |-> d]
    ELSE create_genesis_block(services, order, d, cfg, failing_merge)

\* A drain that does not look into persistent transactions.
RECURSIVE drain_tx_cache_unguarded(_, _)
drain_tx_cache_unguarded(st, cache) ==
    IF cache = {} THEN st
    ELSE LET h == CHOOSE x \in cache : TRUE
         IN  drain_tx_cache_unguarded(add_transaction_into_pool(st, h), cache \ {h})

\* The tx-cache drain of commit: every cached envelope leaves the cache, and enters
\* the pool unless its hash is in persistent transactions.
RECURSIVE drain_tx_cache(_, _)
drain_tx_cache(st, cache) ==
    IF cache = {} THEN st
    ELSE LET h == CHOOSE x \in cache : TRUE
         IN  drain_tx_cache(IF h \notin st.transactions
                            THEN add_transaction_into_pool(st, h)
                            ELSE st,
                            cache \ {h})

\* schema.precommits(&block_hash).extend(precommits).
extend_precommits(st, block_hash, precommits) ==
    [st EXCEPT !.precommits =
        (block_hash :> ((IF block_hash \in DOMAIN st.precommits
                         THEN st.precommits[block_hash] ELSE <<>>) \o precommits)) @@ @]

\* A commit that counts one transaction per block.
update_transaction_count_by_one(st) ==
    [st EXCEPT !.transaction_count = @ + 1]

\* schema.update_transaction_count(last_block().tx_count()).
update_transaction_count(st) ==
    [st EXCEPT !.transaction_count = @ + schema_last_block(st).tx_count]

\* commit's writes after the clear of the cache: the counter and the drain.
count_and_drain(f, cache) ==
    [f EXCEPT !.working = drain_tx_cache(update_transaction_count(@), cache)]

\* A commit that does not clear the consensus messages cache.
commit_patch_no_clear(patch, block_hash, precommits, cache) ==
    IntoPatch(count_and_drain(
        [PatchIntoFork(patch) EXCEPT
            !.working = extend_precommits(@, block_hash, precommits)],
        cache))

\* The fork-side part of Blockchain::commit, up to fork.into_patch().
commit_patch(patch, block_hash, precommits, cache) ==
    IntoPatch(count_and_drain(
        Clear([PatchIntoFork(patch) EXCEPT
                  !.working = extend_precommits(@, block_hash, precommits)],
              "consensus_messages_cache"),
        cache))

\* The cache side of the drain: the keys are collected and each is removed.
RECURSIVE drained_cache(_)
drained_cache(cache) ==
    IF cache = {} THEN cache
    ELSE drained_cache(cache \ {CHOOSE x \in cache : TRUE})

\* A commit that goes on to the after_commit hooks when the merge failed.
commit_ignoring_merge_error(order, d, patch, block_hash, precommits, cache, merge_ok) ==
    IF merge_ok
    THEN [status |-> "ok", db |-> merge(d, commit_patch(patch, block_hash, precommits, cache)),
          after_log |-> order, cache |-> drained_cache(cache)]
    ELSE [status |-> "storage_error", db |-> d, after_log |-> order,
          cache |-> drained_cache(cache)]

\* A commit that merges first and drains the tx-cache after the merge.
commit_draining_after_merge(order, d, patch, block_hash, precommits, cache, merge_ok) ==
    IF merge_ok
    THEN [status |-> "ok", db |-> merge(d, commit_patch(patch, block_hash, precommits, cache)),
          after_log |-> order, cache |-> drained_cache(cache)]
    ELSE [status |-> "storage_error", db |-> d, after_log |-> <<>>, cache |-> cache]

\* Blockchain::commit.  merge_ok: whether the store accepts the merge.  The drain
\* has run on the caller's tx-cache before the merge is tried.
commit(order, d, patch, block_hash, precommits, cache, merge_ok) ==
    IF merge_ok
    THEN [status |-> "ok", db |-> merge(d, commit_patch(patch, block_hash, precommits, cache)),
          after_log |-> order, cache |-> drained_cache(cache)]
    ELSE [status |-> "storage_error", db |-> d, after_log |-> <<>>,
          cache |-> drained_cache(cache)]

\* Blockchain::save_messages: the messages are appended to the cache and the round
\* is set on a fork, which is merged; a failed merge panics (expect).
save_messages(d, round, msgs, merge_ok) ==
    IF merge_ok
    THEN [status |-> "ok",
          db |-> merge(d, IntoPatch(Put(Put(Fork(d), "consensus_messages_cache",
                                            d.consensus_messages_cache \o msgs),
                                        "consensus_round", round)))]
    ELSE [status |-> "storage_panic", db |-> d]

\* Blockchain::save_message.
save_message(d, round, raw, merge_ok) == save_messages(d, round, <<raw>>, merge_ok)

(***************************************************************************)
(* The state machine.                                                      *)
(***************************************************************************)
\* last: the call (op), how it ended (status), its height and tx_hashes, the
\* position at which a storage fault was injected (fault_at) and the position at
\* which the loop over tx_hashes stopped (at, 0: it ran through), the hooks run,
\* and whether the fork dropped by a panicking call held a result written for
\* the transaction it stopped at (recorded), and whether the tx-cache handed to
\* commit held a hash that the patch had in persistent transactions (redundant),
\* and whether the committed block includes a hash that was in the pool (unpooled),
\* and whether initialize found block 0 in the store (had_genesis), and whether
\* messages were saved between the create_patch and the commit of the block
\* (late_messages).
NoCall ==
    [op |-> "none", status |-> "ok", height |-> 0, tx_hashes |-> <<>>, fault_at |-> 0,
     at |-> 0, before_log |-> <<>>, after_log |-> <<>>, recorded |-> FALSE,
     redundant |-> FALSE, unpooled |-> FALSE, had_genesis |-> FALSE,
     late_messages |-> FALSE]

\* The state after Blockchain::new ended as r over an empty store: the instance
\* exists, or the panic left none.  The HashMap's enumeration order is fixed
\* when the map is built.
Constructed(r) ==
    /\ service_map = r.service_map
    /\ iter_order \in Enumerations(r.service_map)
    /\ db = EmptyDb
    /\ tx_cache = {}
    /\ pending = None
    /\ node = IF r.status = "ok" THEN "running" ELSE "halted"
    /\ last = IF r.status = "ok" THEN NoCall
              ELSE [NoCall EXCEPT !.op = "new", !.status = r.status]
    /\ seen = {}
    /\ saved_messages = <<>>
    /\ fork_taken = None

\* The lists of services a node is built from: each id at most once.
ServiceLists == {<<>>, <<1>>, <<2>>, <<1, 2>>}

\* Blockchain::new over a list of services with distinct ids.
Init ==
    /\ supplied_services \in ServiceLists
    /\ Constructed(new(supplied_services, 1, {}))

\* The state after initialize returned r.
Initialized(r) ==
    /\ db' = r.db
    /\ node' = IF r.status = "ok" THEN "running" ELSE "halted"
    /\ last' = [NoCall EXCEPT !.op = "initialize", !.status = r.status,
                    !.had_genesis = (db.block_hashes_by_height # <<>>)]
    /\ UNCHANGED <<fork_taken, supplied_services, service_map, iter_order, tx_cache, pending, seen, saved_messages>>

Initialize(cfg, failing_merge) ==
    /\ node = "running"
    /\ pending = None
    /\ Initialized(initialize(service_map, iter_order, db, cfg, failing_merge))

\* The caller puts a transaction it received into the tx-cache.
CacheInsert(t) ==
    /\ node = "running"
    /\ db.block_hashes_by_height # <<>>
    /\ t \notin tx_cache
    /\ tx_cache' = tx_cache \cup {t}
    /\ seen' = seen \cup {t}
    /\ UNCHANGED <<fork_taken, supplied_services, service_map, iter_order, db, pending, node, last, saved_messages>>

\* The state after create_patch ended as r: the caller holds the patch, or the
\* panic took the process down, and its memory with it.
PatchCreated(r, height, tx_hashes, fault_at) ==
    /\ last' = [NoCall EXCEPT !.op = "create_patch", !.status = r.status,
                    !.height = height, !.tx_hashes = tx_hashes,
                    !.fault_at = fault_at, !.at = r.at,
                    !.before_log = r.before_log,
                    !.recorded = r.fork.working.transaction_results
                                     # r.fork.flushed.transaction_results]
    /\ pending' = IF r.status = "ok"
                  THEN [block_hash |-> r.block_hash, patch |-> r.patch]
                  ELSE None
    /\ tx_cache' = IF r.status = "ok" THEN r.cache ELSE {}
    /\ node' = IF r.status = "ok" THEN node ELSE "halted"
    /\ seen' = IF r.status = "ok" THEN seen ELSE {}
    /\ db' = r.db
    /\ UNCHANGED <<fork_taken, supplied_services, service_map, iter_order, saved_messages>>

\* A round of the caller: create_patch for the next height.
CreatePatch(proposer_id, tx_hashes, fault_at) ==
    /\ node = "running"
    /\ pending = None
    /\ db.block_hashes_by_height # <<>>
    /\ Len(db.block_hashes_by_height) <= MaxHeight
    /\ db.transaction_count + Len(tx_hashes) <= MaxTxCount
    /\ fault_at \in 0 .. Len(tx_hashes) + Len(iter_order)
    /\ PatchCreated(create_patch(service_map, iter_order, db, proposer_id,
                                 Len(db.block_hashes_by_height), tx_hashes, tx_cache,
                                 fault_at),
                    Len(db.block_hashes_by_height), tx_hashes, fault_at)

\* The caller drops a patch it will not commit.
DiscardPatch ==
    /\ node = "running"
    /\ pending # None
    /\ pending' = None
    /\ last' = [NoCall EXCEPT !.op = "discard"]
    /\ UNCHANGED <<fork_taken, supplied_services, service_map, iter_order, db, tx_cache, node, seen, saved_messages>>

\* The state after commit returned r, the caller's tx-cache as the drain left it.
AfterCommit(r) ==
    /\ db' = r.db
    /\ node' = IF r.status = "ok" THEN "running" ELSE "halted"
    /\ last' = [NoCall EXCEPT !.op = "commit", !.status = r.status,
                    !.height = last.height, !.tx_hashes = last.tx_hashes,
                    !.after_log = r.after_log,
                    !.redundant = (tx_cache \cap pending.patch.st.transactions # {}),
                    !.unpooled = (db.transactions_pool
                                      \ pending.patch.st.transactions_pool # {}),
                    !.late_messages = (db.consensus_messages_cache
                                           # pending.patch.base.consensus_messages_cache)]
    /\ tx_cache' = r.cache
    /\ pending' = None
    /\ seen' = {}
    /\ saved_messages' = IF r.status = "ok" THEN <<>> ELSE saved_messages
    /\ UNCHANGED <<fork_taken, supplied_services, service_map, iter_order>>

Commit(precommits, merge_ok) ==
    /\ node = "running"
    /\ pending # None
    /\ AfterCommit(commit(iter_order, db, pending.patch, pending.block_hash, precommits,
                         tx_cache, merge_ok))

\* The state after save_messages ended as r for the messages msgs: they are
\* saved, or the panic took the process down.
MessagesSaved(r, msgs) ==
    /\ db' = r.db
    /\ saved_messages' = saved_messages \o msgs
    /\ node' = IF r.status = "ok" THEN node ELSE "halted"
    /\ last' = IF r.status = "ok" THEN last
               ELSE [NoCall EXCEPT !.op = "save_messages", !.status = r.status]
    /\ pending' = IF r.status = "ok" THEN pending ELSE None
    /\ tx_cache' = IF r.status = "ok" THEN tx_cache ELSE {}
    /\ seen' = IF r.status = "ok" THEN seen ELSE {}
    /\ UNCHANGED <<fork_taken, supplied_services, service_map, iter_order>>

\* The consensus layer saves the next message of the height.
SaveMessage(round, merge_ok) ==
    /\ node = "running"
    /\ db.block_hashes_by_height # <<>>
    /\ Len(saved_messages) < MaxMessages
    /\ MessagesSaved(save_message(db, round, Messages[Len(saved_messages) + 1], merge_ok),
                     <<Messages[Len(saved_messages) + 1]>>)

\* The consensus layer saves the next n messages of the height in one call.
SaveMessages(round, n, merge_ok) ==
    /\ node = "running"
    /\ db.block_hashes_by_height # <<>>
    /\ Len(saved_messages) + n <= MaxMessages
    /\ MessagesSaved(save_messages(db, round,
                                   SubSeq(Messages, Len(saved_messages) + 1,
                                          Len(saved_messages) + n),
                                   merge_ok),
                     SubSeq(Messages, Len(saved_messages) + 1, Len(saved_messages) + n))

\* Another clone of the Blockchain enters create_patch for the next height and
\* takes its fork (mod.rs:299).  It is handed a tx-cache of its own, which holds
\* the envelopes of the hashes it is given.
TakeFork(proposer_id, tx_hashes) ==
    /\ node = "running"
    /\ fork_taken = None
    /\ db.block_hashes_by_height # <<>>
    /\ Len(db.block_hashes_by_height) <= MaxHeight
    /\ db.transaction_count + Len(tx_hashes) <= MaxTxCount
    /\ fork_taken' = [fork |-> Fork(db), proposer_id |-> proposer_id,
                      height |-> Len(db.block_hashes_by_height),
                      tx_hashes |-> tx_hashes]
    /\ UNCHANGED <<supplied_services, service_map, iter_order, db, tx_cache, pending, node,
                   last, seen, saved_messages>>

\* The state after the create_patch of the other clone ended as r: its patch is
\* handed to the node, or the panic took the process down.  Nothing is merged.
PatchBuilt(r, fault_at) ==
    /\ last' = [NoCall EXCEPT !.op = "create_patch", !.status = r.status,
                    !.height = fork_taken.height, !.tx_hashes = fork_taken.tx_hashes,
                    !.fault_at = fault_at, !.at = r.at,
                    !.before_log = r.before_log,
                    !.recorded = r.fork.working.transaction_results
                                     # r.fork.flushed.transaction_results]
    /\ pending' = IF r.status = "ok"
                  THEN [block_hash |-> r.block_hash, patch |-> r.patch]
                  ELSE None
    /\ tx_cache' = IF r.status = "ok" THEN tx_cache ELSE {}
    /\ node' = IF r.status = "ok" THEN node ELSE "halted"
    /\ seen' = IF r.status = "ok" THEN seen ELSE {}
    /\ fork_taken' = None
    /\ UNCHANGED <<supplied_services, service_map, iter_order, db, saved_messages>>

\* The other clone goes on from its fork: it reads last_hash() from the store as
\* it is now (mod.rs:303) and runs the rest of create_patch (mod.rs:305-381).
BuildBlock(fault_at) ==
    /\ node = "running"
    /\ fork_taken # None
    /\ pending = None
    /\ fault_at \in 0 .. Len(fork_taken.tx_hashes)
    /\ PatchBuilt(create_patch_from(service_map, iter_order, fork_taken.fork, db,
                                    fork_taken.proposer_id, fork_taken.height,
                                    fork_taken.tx_hashes, Range(fork_taken.tx_hashes),
                                    fault_at),
                  fault_at)

Next ==
    \/ \E cfg \in GenesisConfigs, failing_merge \in 0 .. 2 : Initialize(cfg, failing_merge)
    \/ \E t \in Txs : CacheInsert(t)
    \/ \E p \in ValidatorIds, txs \in SeqsUpTo(Txs, MaxTxCount) :
           \E fault_at \in 0 .. Len(txs) : CreatePatch(p, txs, fault_at)
    \/ DiscardPatch
    \/ \E pcs \in PrecommitInputs, merge_ok \in BOOLEAN : Commit(pcs, merge_ok)

Spec == Init /\ [][Next]_vars

\* The rounds of a node that saves consensus messages: blocks of at most one
\* transaction, no storage fault during execution.
ConsensusTxs == {"ta"}

NextConsensus ==
    \/ \E cfg \in GenesisConfigs, failing_merge \in 0 .. 2 : Initialize(cfg, failing_merge)
    \/ \E t \in ConsensusTxs : CacheInsert(t)
    \/ \E p \in ValidatorIds, txs \in SeqsUpTo(ConsensusTxs, 1) : CreatePatch(p, txs, 0)
    \/ DiscardPatch
    \/ \E pcs \in PrecommitInputs, merge_ok \in BOOLEAN : Commit(pcs, merge_ok)
    \/ \E round \in Rounds, merge_ok \in BOOLEAN : SaveMessage(round, merge_ok)
    \/ \E round \in Rounds, n \in 2 .. MaxMessages, merge_ok \in BOOLEAN :
           SaveMessages(round, n, merge_ok)

SpecConsensus == Init /\ [][NextConsensus]_vars

\* Nodes built from any list of at most two services, the twin and repeated ids
\* included, producing empty blocks.
InitServices ==
    /\ supplied_services \in SeqsUpTo(AllServiceIds, 2)
    /\ Constructed(new(supplied_services, 1, {}))

NextServices ==
    \/ \E cfg \in GenesisConfigs, failing_merge \in 0 .. 2 : Initialize(cfg, failing_merge)
    \/ \E p \in ValidatorIds : CreatePatch(p, <<>>, 0)
    \/ DiscardPatch
    \/ \E pcs \in PrecommitInputs, merge_ok \in BOOLEAN : Commit(pcs, merge_ok)

SpecServices == InitServices /\ [][NextServices]_vars

\* The rounds of a node that is handed lists of at most two hashes, the
\* unparseable envelope among them, with no storage fault.
LookupTxs == {"ta", UnparseableTx}

NextLookup ==
    \/ \E cfg \in GenesisConfigs, failing_merge \in 0 .. 2 : Initialize(cfg, failing_merge)
    \/ \E t \in LookupTxs : CacheInsert(t)
    \/ \E p \in ValidatorIds, txs \in SeqsUpTo(LookupTxs, 2) : CreatePatch(p, txs, 0)
    \/ DiscardPatch
    \/ \E pcs \in PrecommitInputs, merge_ok \in BOOLEAN : Commit(pcs, merge_ok)

SpecLookup == Init /\ [][NextLookup]_vars

\* Nodes built from service 1 and the faulty service, with blocks of at most one
\* transaction and storage faults under transactions and under hooks.
InitHooks ==
    /\ supplied_services \in SeqsUpTo({1, FaultyService}, 2)
    /\ Constructed(new(supplied_services, 1, {}))

NextHooks ==
    \/ \E cfg \in GenesisConfigs, failing_merge \in 0 .. 2 : Initialize(cfg, failing_merge)
    \/ \E t \in ConsensusTxs : CacheInsert(t)
    \/ \E p \in ValidatorIds, txs \in SeqsUpTo(ConsensusTxs, 1) :
           \E fault_at \in 0 .. Len(txs) + Len(iter_order) : CreatePatch(p, txs, fault_at)
    \/ DiscardPatch
    \/ \E pcs \in PrecommitInputs, merge_ok \in BOOLEAN : Commit(pcs, merge_ok)

SpecHooks == InitHooks /\ [][NextHooks]_vars

\* Two clones of the Blockchain over one store: the node builds and commits
\* blocks of at most one transaction, and another clone builds blocks whose
\* patches the node commits.
NextClones ==
    \/ \E cfg \in GenesisConfigs, failing_merge \in 0 .. 2 : Initialize(cfg, failing_merge)
    \/ \E t \in ConsensusTxs : CacheInsert(t)
    \/ \E p \in ValidatorIds, txs \in SeqsUpTo(ConsensusTxs, 1) : CreatePatch(p, txs, 0)
    \/ DiscardPatch
    \/ \E pcs \in PrecommitInputs, merge_ok \in BOOLEAN : Commit(pcs, merge_ok)
    \/ \E p \in ValidatorIds, txs \in SeqsUpTo(ConsensusTxs, 1) : TakeFork(p, txs)
    \/ \E fault_at \in 0 .. 1 : BuildBlock(fault_at)

SpecClones == Init /\ [][NextClones]_vars

(***************************************************************************)
(* Properties.                                                             *)
(***************************************************************************)
\* A create_patch has returned and its patch is in the caller's hands.
PatchReturned == pending # None /\ last.op = "create_patch" /\ last.status = "ok"

\* The result of executing the first n hashes of the last create_patch's list
\* on a fork of the committed store, every hash being resolvable.
ExecutedPrefix(n) ==
    execute_all(service_map, SubSeq(last.tx_hashes, 1, n), last.height, 1, Fork(db), Txs, 0)

\* C1. Determinism: an instance with the same store, services and inputs whose
\* service map enumerates in any other order returns the same block hash and a
\* patch that merges to the same state.
C1_Determinism ==
    PatchReturned =>
        \A o \in Enumerations(service_map) :
            LET r == create_patch(service_map, o, db, 0, last.height, last.tx_hashes,
                                  Range(last.tx_hashes), 0)
            IN  /\ r.block_hash = pending.block_hash
                /\ merge(db, r.patch) = merge(db, pending.patch)

\* C2. Isolation: a transaction that returns an error or panics (no storage
\* cause) leaves the services' tables as they were at the savepoint before it,
\* and the patch holds the writes of exactly the successful transactions.
C2_Isolation ==
    PatchReturned =>
        LET txs == last.tx_hashes
        IN  /\ \A i \in 1 .. Len(txs) :
                   TxKind(txs[i]) # "ok" =>
                       /\ ExecutedPrefix(i).fork.working.counter
                              = ExecutedPrefix(i - 1).fork.working.counter
                       /\ ExecutedPrefix(i).fork.working.hook_table
                              = ExecutedPrefix(i - 1).fork.working.hook_table
            /\ pending.patch.st.counter[1]
                   = db.counter[1] + Cardinality({i \in 1 .. Len(txs) : TxKind(txs[i]) = "ok"})

\* A patch built from [ok, failing, ok]: the counter went up by 2.
C2_Witness ==
    /\ PatchReturned
    /\ Len(last.tx_hashes) = 3
    /\ TxKind(last.tx_hashes[1]) = "ok"
    /\ TxKind(last.tx_hashes[2]) # "ok"
    /\ TxKind(last.tx_hashes[3]) = "ok"
    /\ pending.patch.st.counter[1] = db.counter[1] + 2

\* C3 as stated. Result totality: every input hash has a result, the block's
\* list is the input list, and the location of tx_hashes[i] is (height, i).
C3_ResultTotality_Original ==
    PatchReturned =>
        LET txs == last.tx_hashes
            st == pending.patch.st
        IN  /\ \A i \in 1 .. Len(txs) : txs[i] \in DOMAIN st.transaction_results
            /\ st.block_transactions[last.height] = txs
            /\ \A i \in 1 .. Len(txs) :
                   /\ txs[i] \in DOMAIN st.transactions_locations
                   /\ st.transactions_locations[txs[i]]
                          = [height |-> last.height, index |-> i - 1]

\* C3 as amended. Result totality: every input hash has a result (ok, err or
\* panic), the block's list is the input list, and the location of tx_hashes[i]
\* is (height, i) for every index i after which the hash does not occur again.
C3_ResultTotality ==
    PatchReturned =>
        LET txs == last.tx_hashes
            st == pending.patch.st
        IN  /\ \A i \in 1 .. Len(txs) :
                   /\ txs[i] \in DOMAIN st.transaction_results
                   /\ st.transaction_results[txs[i]] \in {"ok", "err", "panic"}
            /\ st.block_transactions[last.height] = txs
            /\ \A i \in 1 .. Len(txs) :
                   /\ txs[i] \in DOMAIN st.transactions_locations
                   /\ (\A j \in (i + 1) .. Len(txs) : txs[j] # txs[i]) =>
                          st.transactions_locations[txs[i]]
                              = [height |-> last.height, index |-> i - 1]

\* A patch built from three distinct hashes.
C3_Witness ==
    /\ PatchReturned
    /\ Len(last.tx_hashes) = 3
    /\ Cardinality(Range(last.tx_hashes)) = 3

\* The last call was a create_patch in which an execute raised a storage fault.
StorageFaultRaised(l) ==
    /\ l.op = "create_patch"
    /\ l.fault_at > 0
    /\ l.status \notin {"missing_transaction", "service_not_found"}

\* C4. Storage-fault fatality: a storage fault raised by an execute leaves
\* create_patch by unwinding, at the faulting transaction; no patch is returned,
\* no result was written for that transaction, and the committed store is as
\* it was before the call.
C4_StorageFaultFatality ==
    [][StorageFaultRaised(last') =>
           /\ last'.status = "storage_unwind"
           /\ last'.at = last'.fault_at
           /\ ~last'.recorded
           /\ pending' = None
           /\ node' = "halted"
           /\ db' = db]_vars

\* The storage fault hit the second of three transactions.
C4_Witness ==
    /\ StorageFaultRaised(last)
    /\ node = "halted"
    /\ Len(last.tx_hashes) = 3
    /\ last.fault_at = 2
    /\ last.at = 2

\* C5. Hook ordering: before_commit in create_patch and after_commit in commit
\* are invoked in ascending service_id order.
C5_HookOrdering ==
    /\ IsAscending(last.before_log)
    /\ IsAscending(last.after_log)

\* The hashes in some committed block of store d.
Committed(d) == UNION {Range(d.block_transactions[h]) : h \in Heights}

\* C6. Mempool availability: when a commit succeeds, every transaction that was
\* in the tx-cache during the round and is in no committed block is in
\* transactions_pool or still in the tx-cache.
C6_MempoolAvailability ==
    [][(pending # None /\ last'.op = "commit" /\ last'.status = "ok") =>
           \A t \in seen :
               \/ t \in Committed(db')
               \/ t \in db'.transactions_pool
               \/ t \in tx_cache']_vars

\* Every hash in a block of d has a location and a result and occurs once.
Unique(d) ==
    \A h \in Heights : \A i \in 1 .. Len(d.block_transactions[h]) :
        LET t == d.block_transactions[h][i]
        IN  /\ t \in DOMAIN d.transactions_locations
            /\ t \in DOMAIN d.transaction_results
            /\ \A h2 \in Heights : \A i2 \in 1 .. Len(d.block_transactions[h2]) :
                   d.block_transactions[h2][i2] = t => (h2 = h /\ i2 = i)

\* C7 as stated. Committed-transaction uniqueness, for any tx_hashes lists.
C7_Uniqueness_Original == Unique(db)

\* The list of the patch in hand repeats no hash and names no committed hash.
FreshList ==
    LET txs == last.tx_hashes
    IN  /\ \A i, j \in 1 .. Len(txs) : i # j => txs[i] # txs[j]
        /\ Range(txs) \cap Committed(db) = {}

\* C7 as amended. Committed-transaction uniqueness holds after genesis and is
\* kept by every commit of a block whose tx_hashes list repeats no hash and
\* names no hash of an earlier block.
C7_Uniqueness ==
    [][(Unique(db) /\ (pending # None => FreshList)) => Unique(db')]_vars

\* Two blocks with transactions were committed, and uniqueness holds.
C7_Witness ==
    /\ Len(db.block_hashes_by_height) = 3
    /\ Len(db.block_transactions[1]) >= 1
    /\ Len(db.block_transactions[2]) >= 2
    /\ Unique(db)

C9_PoolBlockDisjoint == db.transactions_pool \cap Committed(db) = {}

\* A commit included a pooled hash while the tx-cache held a hash of the block.
C9_Witness ==
    /\ last.op = "commit"
    /\ last.status = "ok"
    /\ last.unpooled
    /\ last.redundant
    /\ db.block_transactions[2] # <<>>

\* C10. Height monotonicity and index consistency: after genesis and the commits
\* of heights 1..k the list of block hashes has k + 1 entries, and entry h is the
\* hash of a stored block whose height is h.
C10_HeightConsistency ==
    LET hashes == db.block_hashes_by_height
    IN  /\ \A h \in 0 .. Len(hashes) - 1 :
               /\ hashes[h + 1] \in DOMAIN db.blocks
               /\ db.blocks[hashes[h + 1]].height = h
        /\ (last.op = "initialize" /\ last.status = "ok") => Len(hashes) >= 1
        /\ (last.op = "commit" /\ last.status = "ok") => Len(hashes) = last.height + 1

\* Heights 1 and 2 were committed on top of genesis.
C10_Witness ==
    /\ last.op = "commit"
    /\ last.status = "ok"
    /\ last.height = 2
    /\ Len(db.block_hashes_by_height) = 3

\* The (key, hash) pairs create_patch collects for a block built on state st.
CollectedFor(st) ==
    collect_state_hashes(iter_order, 1, st, table_entries(CORE_SERVICE, core_state_hash(st)))

\* C11. State-hash composition: the state_hash of the header create_patch built
\* is the root of an initially empty aggregator that received exactly the pairs
\* collected for this block, also when a service's vector is shorter than at an
\* earlier committed height.
C11_StateHashComposition ==
    PatchReturned =>
        pending.patch.st.blocks[pending.block_hash].state_hash
            = Hash(put_all(EmptyFn, CollectedFor(pending.patch.st), 1))

\* C12. Genesis idempotence: an initialize of a store that holds block 0 returns
\* success and leaves the committed store as it was: no second block, no second
\* configuration entry, the same list of block hashes.
C12_GenesisIdempotence ==
    [][(/\ db.block_hashes_by_height # <<>>
        /\ \E cfg \in GenesisConfigs, failing_merge \in 0 .. 2 :
               Initialize(cfg, failing_merge)) =>
           /\ last'.op = "initialize"
           /\ last'.status = "ok"
           /\ node' = "running"
           /\ db' = db]_vars

\* A second initialize right after genesis: one block, one configuration.
C12_Witness ==
    /\ last.op = "initialize"
    /\ last.status = "ok"
    /\ last.had_genesis
    /\ Len(db.block_hashes_by_height) = 1
    /\ Len(db.configs) = 1
    /\ DOMAIN db.blocks = {db.block_hashes_by_height[1]}

\* Block 0 of a store whose genesis was built with no registered service.
EmptyGenesisBlock == db.blocks[db.block_hashes_by_height[1]]

EmptyGenesisBuilt == service_map = {} /\ db.block_hashes_by_height # <<>>

\* C13 as stated. Empty genesis: with no registered service block 0 has tx_count
\* 0, the root of the empty transaction list as tx_hash and the root of the
\* empty state-hash aggregator as state_hash.
C13_EmptyGenesis_Original ==
    EmptyGenesisBuilt =>
        /\ EmptyGenesisBlock.tx_count = 0
        /\ EmptyGenesisBlock.tx_hash = Hash(<<>>)
        /\ EmptyGenesisBlock.state_hash = Hash(EmptyFn)

\* C13 as amended. Empty genesis: with no registered service block 0 has tx_count
\* 0, the root of the empty transaction list as tx_hash, and as state_hash the
\* root of the aggregator that holds exactly the core tables' roots under
\* CORE_SERVICE: the configuration history with the genesis configuration, and
\* the empty transaction_results.
C13_EmptyGenesis ==
    EmptyGenesisBuilt =>
        /\ EmptyGenesisBlock.height = 0
        /\ EmptyGenesisBlock.tx_count = 0
        /\ EmptyGenesisBlock.tx_hash = Hash(<<>>)
        /\ Len(db.configs) = 1
        /\ EmptyGenesisBlock.state_hash
               = Hash((service_table_unique_key(CORE_SERVICE, 0) :> Hash(db.configs))
                      @@ (service_table_unique_key(CORE_SERVICE, 1) :> Hash(EmptyFn)))

\* The first initialize of an instance without services has built block 0.
C13_Witness ==
    /\ service_map = {}
    /\ last.op = "initialize"
    /\ last.status = "ok"
    /\ ~last.had_genesis
    /\ Len(db.block_hashes_by_height) = 1
    /\ db.block_hashes_by_height[1] \in DOMAIN db.blocks

\* C14. Merge is the linearization point: create_patch leaves the committed
\* store, and with it last_hash, last_block, pool_size and every snapshot, as
\* they were; the block it built is not in the store until commit merges the
\* patch, and is the last block once it did.
C14_MergeLinearization ==
    [][/\ (last.op # "create_patch" /\ last'.op = "create_patch") =>
              /\ db' = db
              /\ last_hash(db') = last_hash(db)
              /\ last_block(db') = last_block(db)
              /\ pool_size(db') = pool_size(db)
              /\ last'.status = "ok" =>
                     /\ pending'.block_hash \notin DOMAIN db'.blocks
                     /\ pending'.block_hash \notin Range(db'.block_hashes_by_height)
       /\ (pending # None /\ last'.op = "commit" /\ last'.status = "ok") =>
              /\ last_hash(db') = pending.block_hash
              /\ last_block(db') = pending.patch.st.blocks[pending.block_hash]]_vars

\* A block of two transactions was built for height 2 and is not yet merged.
C14_Witness ==
    /\ PatchReturned
    /\ last.height = 2
    /\ Len(last.tx_hashes) = 2
    /\ Len(db.block_hashes_by_height) = 2
    /\ last_block(db).height = 1
    /\ pending.block_hash \notin DOMAIN db.blocks

\* C15. Commit failure: when the merge inside commit fails, commit returns the
\* error, the committed store is what it was before the call (no precommits, no
\* counter change, no pool additions, no new block) and no after_commit is
\* invoked; after_commit runs only after a successful merge.
C15_CommitFailure ==
    [][/\ (pending # None /\ last'.op = "commit" /\ last'.status # "ok") =>
              /\ last'.status = "storage_error"
              /\ db' = db
              /\ db'.precommits = db.precommits
              /\ db'.transaction_count = db.transaction_count
              /\ db'.transactions_pool = db.transactions_pool
              /\ db'.block_hashes_by_height = db.block_hashes_by_height
              /\ last'.after_log = <<>>
       /\ (pending # None /\ last'.op = "commit" /\ last'.after_log # <<>>) =>
              /\ last'.status = "ok"
              /\ last_hash(db') = pending.block_hash]_vars

\* The commit of a block with transactions, on an instance with two services,
\* failed in the merge: no hook ran and the block is not in the store.
C15_Witness ==
    /\ last.op = "commit"
    /\ last.status = "storage_error"
    /\ last.after_log = <<>>
    /\ last.tx_hashes # <<>>
    /\ Cardinality(service_map) = 2
    /\ Len(db.block_hashes_by_height) = last.height
    /\ node = "halted"

\* C16. The consensus message cache is height-scoped: right after every
\* successful commit the committed cache is empty, and between two commits it
\* holds exactly the messages handed to save_message and save_messages since the
\* last commit, in the order saved.
C16_MessageCacheScope ==
    [][/\ (pending # None /\ last'.op = "commit" /\ last'.status = "ok") =>
              db'.consensus_messages_cache = <<>>
       /\ node' = "running" => db'.consensus_messages_cache = saved_messages']_vars

\* A commit cleared a cache that had grown after the block was built, and two
\* messages were saved at the next height.
C16_Witness ==
    /\ last.op = "commit"
    /\ last.status = "ok"
    /\ last.late_messages
    /\ Len(db.block_hashes_by_height) = 2
    /\ db.consensus_messages_cache = <<Messages[1], Messages[2]>>
    /\ saved_messages = db.consensus_messages_cache

\* Two of the services registered in the map carry the same name.
SharedName == \E a, b \in service_map : a # b /\ ServiceName(a) = ServiceName(b)

\* Two of the services supplied to the constructor carry the same id.
SharedId ==
    \E i, j \in 1 .. Len(supplied_services) : i # j /\ supplied_services[i] = supplied_services[j]

\* C17. Duplicate services are fatal: Blockchain::new panics when two supplied
\* services share an id and returns an instance otherwise; initialize panics
\* when two registered services share a name, and then nothing was merged: the
\* store has no configuration and no block 0.
C17_DuplicateServices ==
    /\ SharedId <=> (last.op = "new" /\ last.status = "panic")
    /\ SharedId => (node = "halted" /\ db = EmptyDb)
    /\ (SharedName /\ last.op = "initialize") =>
           /\ last.status = "panic"
           /\ node = "halted"
           /\ db.configs = <<>>
           /\ db.block_hashes_by_height = <<>>
           /\ db = EmptyDb
    /\ (~SharedName /\ last.op = "initialize") => last.status # "panic"

\* initialize panicked on a node built from service 2 and its twin.
C17_Witness ==
    /\ service_map = {2, TwinService}
    /\ SharedName
    /\ last.op = "initialize"
    /\ last.status = "panic"
    /\ db = EmptyDb

\* The step is a create_patch call.
CreatePatchStep == last.op # "create_patch" /\ last'.op = "create_patch"

\* C18. before_commit fault isolation: at a height above 0 the writes of a hook
\* that panicked with no storage cause are rolled back and nothing else is: the
\* writes of the executed transactions and of the other services' hooks are in
\* the patch, and the block is produced; a storage fault under a hook leaves
\* create_patch by unwinding; genesis invokes no hook.
C18_HookIsolation ==
    [][/\ (CreatePatchStep /\ last'.status = "ok") =>
              /\ last'.height > 0
              /\ last'.before_log = iter_order
              /\ pending'.patch.st.hook_table[FaultyService] = db.hook_table[FaultyService]
              /\ 1 \in service_map =>
                     pending'.patch.st.hook_table[1] = db.hook_table[1] + 1
              /\ pending'.patch.st.counter[1]
                     = db.counter[1]
                           + Cardinality({i \in 1 .. Len(last'.tx_hashes) :
                                              TxKind(last'.tx_hashes[i]) = "ok"})
              /\ pending'.patch.st.block_transactions[last'.height] = last'.tx_hashes
              /\ pending'.block_hash \in DOMAIN pending'.patch.st.blocks
       /\ (CreatePatchStep /\ last'.fault_at = 0) =>
              last'.status \in {"ok", "missing_transaction", "service_not_found"}
       /\ (CreatePatchStep /\ last'.fault_at > Len(last'.tx_hashes)
             /\ last'.status \notin {"missing_transaction", "service_not_found"}) =>
              /\ last'.status = "storage_unwind"
              /\ last'.at = last'.fault_at
              /\ pending' = None
              /\ db' = db
       /\ (last'.op = "initialize" /\ last'.status = "ok" /\ ~last'.had_genesis) =>
              \A sid \in AllServiceIds : db'.hook_table[sid] = 0]_vars

\* A block with a transaction was built for height 2 by a node on which the
\* faulty service's hook ran after service 1's: service 1's write and the
\* transaction's are in the patch, the faulty service's are not.
C18_Witness ==
    /\ PatchReturned
    /\ iter_order = <<1, FaultyService>>
    /\ last.height = 2
    /\ last.tx_hashes = <<"ta">>
    /\ pending.patch.st.hook_table[1] = 2
    /\ pending.patch.st.hook_table[FaultyService] = 0
    /\ pending.patch.st.counter[1] = db.counter[1] + 1

\* Why the hash at position i of the list txs cannot be executed by a call made
\* in the current state ("ok": it can).
LookupFailure(txs, i) ==
    IF txs[i] \notin db.transactions \cup tx_cache THEN "missing_transaction"
    ELSE tx_from_raw(service_map, txs[i])

\* The first position of txs whose hash cannot be executed (0: none).
FirstFailure(txs) ==
    IF \A i \in 1 .. Len(txs) : LookupFailure(txs, i) = "ok" THEN 0
    ELSE CHOOSE i \in 1 .. Len(txs) :
             /\ LookupFailure(txs, i) # "ok"
             /\ \A j \in 1 .. i - 1 : LookupFailure(txs, j) = "ok"

\* C19. Execution-time lookup failures are fatal: when a hash of tx_hashes is in
\* neither persistent transactions nor the tx-cache, or names a service that is
\* not registered, or carries a payload its service cannot parse, create_patch
\* panics at that hash, no result was written for it and the committed store is
\* unchanged; otherwise it returns.  A hash found in both places resolves to
\* the persistent envelope.
C19_LookupFailures ==
    [][/\ (CreatePatchStep /\ last'.fault_at = 0 /\ FirstFailure(last'.tx_hashes) = 0) =>
              last'.status = "ok"
       /\ (CreatePatchStep /\ last'.fault_at = 0 /\ FirstFailure(last'.tx_hashes) # 0) =>
              /\ last'.status
                     = LookupFailure(last'.tx_hashes, FirstFailure(last'.tx_hashes))
              /\ last'.at = FirstFailure(last'.tx_hashes)
              /\ ~last'.recorded
              /\ pending' = None
              /\ node' = "halted"
              /\ db' = db
       /\ \A t \in db.transactions \cap tx_cache :
              get_tx(t, db.transactions, tx_cache).from = "transactions"]_vars

\* create_patch panicked at the unparseable second hash of a list whose first
\* hash it had executed.
C19_Witness ==
    /\ last.op = "create_patch"
    /\ last.status = "parse_error"
    /\ last.tx_hashes = <<"ta", UnparseableTx>>
    /\ last.at = 2
    /\ node = "halted"
    /\ pending = None
    /\ Len(db.block_hashes_by_height) = last.height

\* The sum of tx_count over the blocks of store d at heights 1 .. k.
RECURSIVE SumTxCount(_, _)
SumTxCount(d, k) ==
    IF k = 0 THEN 0
    ELSE SumTxCount(d, k - 1) + d.blocks[d.block_hashes_by_height[k + 1]].tx_count

\* C20. Transaction counter: a successful commit raises transaction_count by the
\* tx_count of the block it commits, which counts every hash of the list,
\* whatever its result; so after genesis and the commits of blocks 1..k the
\* counter is the sum of their tx_count, and it is 0 after genesis.
C20_TransactionCounter ==
    [][/\ (pending # None /\ last'.op = "commit" /\ last'.status = "ok") =>
              /\ db'.transaction_count
                     = db.transaction_count + last_block(db').tx_count
              /\ last_block(db') = pending.patch.st.blocks[pending.block_hash]
              /\ last_block(db').tx_count = Len(last'.tx_hashes)
       /\ (last'.op = "initialize" /\ last'.status = "ok" /\ ~last'.had_genesis) =>
              db'.transaction_count = 0
       /\ db'.block_hashes_by_height # <<>> =>
              db'.transaction_count
                  = SumTxCount(db', Len(db'.block_hashes_by_height) - 1)]_vars

\* Two blocks were committed, with an erring and a panicking transaction among
\* their three: the counter is 3.
C20_Witness ==
    /\ last.op = "commit"
    /\ last.status = "ok"
    /\ Len(db.block_hashes_by_height) = 3
    /\ "tb" \in Committed(db)
    /\ "tc" \in Committed(db)
    /\ db.transaction_results["tb"] = "err"
    /\ db.transaction_results["tc"] = "panic"
    /\ db.blocks[db.block_hashes_by_height[2]].tx_count >= 1
    /\ db.blocks[db.block_hashes_by_height[3]].tx_count >= 1
    /\ db.transaction_count = 3

\* C21. Tx-cache drain: when commit returns, with success or with a merge error,
\* the tx-cache is empty; on success every hash that was in the cache at the call
\* is in the committed transactions_pool if the patch did not have it in
\* persistent transactions, and otherwise the drain did not add it: it is in the
\* committed pool only if the patch already had it there.
C21_TxCacheDrain ==
    [][(pending # None /\ last'.op = "commit") =>
           /\ tx_cache' = {}
           /\ last'.status = "ok" =>
                  \A h \in tx_cache :
                      IF h \notin pending.patch.st.transactions
                      THEN h \in db'.transactions_pool
                      ELSE h \in db'.transactions_pool
                               <=> h \in pending.patch.st.transactions_pool]_vars

\* The first block after genesis was committed with a tx-cache that held a hash
\* of the block and a hash that was nowhere in the store: the pool, empty until
\* then, holds the second and not the first.
C21_Witness ==
    /\ last.op = "commit"
    /\ last.status = "ok"
    /\ last.height = 1
    /\ last.redundant
    /\ tx_cache = {}
    /\ db.transactions_pool # {}
    /\ db.transactions_pool \cap Range(last.tx_hashes) = {}

\* The header that the patch in hand holds for its block.
PatchHeader == pending.patch.st.blocks[pending.block_hash]

\* Every committed block above genesis names the block below it.
ChainLinked(d) ==
    \A h \in 1 .. Len(d.block_hashes_by_height) - 1 :
        d.blocks[d.block_hashes_by_height[h + 1]].prev_hash = d.block_hashes_by_height[h]

\* C22. Chain linkage: the header built by create_patch has prev_hash equal to
\* the last entry of block_hashes_by_height in the state its fork is based on
\* (the zero hash when there is no block), so in every committed chain the block
\* at height h > 0 has prev_hash equal to block_hashes_by_height[h - 1]; also
\* when another clone merges a block between the fork and the read of last_hash().
C22_ChainLinkage ==
    /\ PatchReturned => PatchHeader.prev_hash = last_hash(pending.patch.base)
    /\ ChainLinked(db)

====
